---- MODULE Spec2Model ----
(***************************************************************************)
(* Model of leo2/core/memory/embeddings/minilm_embed.py: a command-line    *)
(* script that reads a JSON array of texts, a model name and a dimension   *)
(* from argv, asks a sentence-embedding model for one vector per text and  *)
(* prints the vectors (truncated to the dimension) as one JSON document.   *)
(* When the library cannot be imported, or loading / encoding / converting *)
(* raises, it prints zero vectors instead and exits with status 0.         *)
(*                                                                         *)
(* argv[1] is a sequence of JSON tokens and argv[3] a sequence of          *)
(* characters; JsonLoads and IntParse parse them.  A document written to   *)
(* standard output is kept as the value handed to json.dumps (a sequence   *)
(* of sequences of floats).  What the embedding library does (import,      *)
(* model construction, encode) is chosen nondeterministically.             *)
(***************************************************************************)
EXTENDS Integers, Sequences, FiniteSets, TLC

VARIABLES argv, pc, texts, model_name, dim, encoded, vectors, acc,
          stdout, status, raised

vars == <<argv, pc, texts, model_name, dim, encoded, vectors, acc,
          stdout, status, raised>>

\* ---------------------------------------------------------------- bounds
MaxTexts == 2
MaxNative == 2
MaxDim == 3

\* ------------------------------------------------------- python helpers
Min(a, b) == IF a <= b THEN a ELSE b

Max(a, b) == IF a >= b THEN a ELSE b

\* [x] * n : n copies of x, the empty list when n <= 0
Repeat(x, n) == IF n <= 0 THEN <<>> ELSE [i \in 1..n |-> x]

\* v[:d] : the first d items; for a negative d all but the last -d items
Truncate(v, d) ==
  IF d >= 0 THEN SubSeq(v, 1, Min(d, Len(v)))
            ELSE SubSeq(v, 1, Max(0, Len(v) + d))

\* the python float 0.0
Zero == [kind |-> "float", val |-> 0]

\* a component of a model vector: a numpy float32, or an object float()
\* rejects
F32(x) == [kind |-> "float32", val |-> x]

NotNumber == [kind |-> "NoneType", val |-> 0]

Components == {F32(0), F32(1), NotNumber}

\* float(c) raises for an object that is no number
FloatRaises(c) == c.kind \notin {"float32", "float", "int"}

\* float(c) : a python float of the same numeric value
Float(c) == [kind |-> "float", val |-> c.val]

\* list(map(float, t))
MapFloat(t) == [j \in 1..Len(t) |-> Float(t[j])]

\* [[0.0]*d] * len(t)
ZeroFallbackOne(t, d) == <<Repeat(Zero, d)>>

ZeroFallbackAtLeastOne(t, d) == Repeat(Repeat(Zero, d), Max(1, Len(t)))

ZeroFallbackSwapped(t, d) == Repeat(Repeat(Zero, Len(t)), d)

ZeroFallback(t, d) == Repeat(Repeat(Zero, d), Len(t))

\* ------------------------------------------------------------ argv[1]
\* the texts "a", "b", "a", ... : what a text says is nothing the script
\* looks at
TextAt(i) == IF i % 2 = 1 THEN "a" ELSE "b"

TextLists == {[i \in 1..n |-> TextAt(i)] : n \in 0..MaxTexts}

RECURSIVE RenderItems(_)
RenderItems(t) ==
  IF Len(t) = 0 THEN <<>>
  ELSE IF Len(t) = 1 THEN <<[tok |-> "string", s |-> t[1]]>>
  ELSE <<[tok |-> "string", s |-> t[1]], [tok |-> ",", s |-> ""]>>
       \o RenderItems(Tail(t))

\* the JSON text (as tokens) of an array of strings
RenderArray(t) ==
  <<[tok |-> "[", s |-> ""]>> \o RenderItems(t) \o <<[tok |-> "]", s |-> ""]>>

\* texts that are not JSON: an unterminated array, a trailing comma, words
Unterminated(t) == <<[tok |-> "[", s |-> ""]>> \o RenderItems(t)

TrailingComma(t) ==
  <<[tok |-> "[", s |-> ""]>> \o RenderItems(t)
    \o <<[tok |-> ",", s |-> ""], [tok |-> "]", s |-> ""]>>

NotJson == <<[tok |-> "word", s |-> "not"], [tok |-> "word", s |-> "json"]>>

MalformedArg1 == {Unterminated(<<>>), Unterminated(<<"a">>),
                  TrailingComma(<<"a">>), NotJson}

Arg1Values == {RenderArray(t) : t \in TextLists} \cup MalformedArg1

\* items of an array after "[" : string ("," string)* "]"  or  "]"
RECURSIVE ParseItems(_, _, _)
ParseItems(toks, out, wantItem) ==
  IF Len(toks) = 0 THEN [raised |-> TRUE, value |-> <<>>]
  ELSE IF wantItem
    THEN IF toks[1].tok = "string"
           THEN ParseItems(Tail(toks), Append(out, toks[1].s), FALSE)
         ELSE IF toks[1].tok = "]" /\ Len(out) = 0 /\ Len(toks) = 1
           THEN [raised |-> FALSE, value |-> <<>>]
         ELSE [raised |-> TRUE, value |-> <<>>]
    ELSE IF toks[1].tok = "," /\ Len(toks) > 1 /\ toks[2].tok = "string"
           THEN ParseItems(Tail(toks), out, TRUE)
         ELSE IF toks[1].tok = "]" /\ Len(toks) = 1
           THEN [raised |-> FALSE, value |-> out]
         ELSE [raised |-> TRUE, value |-> <<>>]

JsonLoadsLenient(toks) ==
  IF Len(toks) > 0 /\ toks[1].tok = "[" /\ ~ParseItems(Tail(toks), <<>>, TRUE).raised
    THEN ParseItems(Tail(toks), <<>>, TRUE)
    ELSE [raised |-> FALSE, value |-> <<>>]

\* json.loads(s) for the texts above: the list, or JSONDecodeError
JsonLoads(toks) ==
  IF Len(toks) > 0 /\ toks[1].tok = "["
    THEN ParseItems(Tail(toks), <<>>, TRUE)
    ELSE [raised |-> TRUE, value |-> <<>>]

\* ------------------------------------------------------------ argv[3]
Digits == <<"0", "1", "2", "3", "4", "5", "6", "7", "8", "9">>

IsDigit(c) == \E i \in 1..10 : Digits[i] = c

DigitVal(c) == (CHOOSE i \in 1..10 : Digits[i] = c) - 1

RECURSIVE NatToStr(_)
NatToStr(n) ==
  IF n < 10 THEN <<Digits[n + 1]>>
  ELSE Append(NatToStr(n \div 10), Digits[(n % 10) + 1])

IntToStr(n) == IF n < 0 THEN <<"-">> \o NatToStr(0 - n) ELSE NatToStr(n)

RECURSIVE DigitsVal(_, _)
DigitsVal(cs, a) ==
  IF Len(cs) = 0 THEN a ELSE DigitsVal(Tail(cs), 10 * a + DigitVal(cs[1]))

AllDigits(cs) == Len(cs) > 0 /\ \A i \in 1..Len(cs) : IsDigit(cs[i])

\* int(s) : optional sign and decimal digits, else ValueError
IntParse(cs) ==
  IF Len(cs) > 0 /\ cs[1] \in {"-", "+"}
    THEN IF AllDigits(Tail(cs))
           THEN [raised |-> FALSE,
                 value |-> IF cs[1] = "-" THEN 0 - DigitsVal(Tail(cs), 0)
                                          ELSE DigitsVal(Tail(cs), 0)]
           ELSE [raised |-> TRUE, value |-> 0]
    ELSE IF AllDigits(cs)
           THEN [raised |-> FALSE, value |-> DigitsVal(cs, 0)]
           ELSE [raised |-> TRUE, value |-> 0]

MalformedArg3 == {<<"a", "b", "c">>, <<"2", ".", "0">>, <<>>}

Arg3Values == {IntToStr(n) : n \in (0 - 1)..MaxDim} \cup MalformedArg3

ModelNames == {"all-MiniLM-L6-v2"}

\* ------------------------------------------------- the embedding library
\* a row of the encode result: sliceable with n components, or an object
\* v[:dim] raises on
Unsliceable == [sliceable |-> FALSE, comps |-> <<>>]

NativeVectors(n) ==
  {[sliceable |-> TRUE, comps |-> c] : c \in [1..n -> Components]}
    \cup {Unsliceable}

\* model.encode(texts): one row per text, all of one native length
EncodeResults(count) ==
  UNION {[1..count -> NativeVectors(n)] : n \in 1..MaxNative}

\* ------------------------------------------------------------- the script
Init ==
  /\ argv \in [a1 : Arg1Values, a2 : ModelNames, a3 : Arg3Values]
  /\ pc = "import"
  /\ texts = <<>>
  /\ model_name = ""
  /\ dim = 0
  /\ encoded = <<>>
  /\ vectors = <<>>
  /\ acc = <<>>
  /\ stdout = <<>>
  /\ status = 0 - 1
  /\ raised = "none"

\* an exception nothing catches: traceback, nothing printed, exit status 1
Uncaught(kind) ==
  /\ pc' = "done"
  /\ status' = 1
  /\ raised' = kind
  /\ UNCHANGED stdout

\* lines 5-6: the import succeeds
ImportOk ==
  /\ pc = "import"
  /\ pc' = "parse"
  /\ UNCHANGED <<argv, texts, model_name, dim, encoded, vectors, acc,
                 stdout, status, raised>>

\* lines 7-9: ImportError; int(argv[3]) is evaluated before json.loads(argv[1])
ImportErrorFallback ==
  /\ pc = "import"
  /\ IF IntParse(argv.a3).raised \/ JsonLoads(argv.a1).raised
       THEN Uncaught("argument")
       ELSE /\ stdout' = Append(stdout, ZeroFallback(JsonLoads(argv.a1).value,
                                                     IntParse(argv.a3).value))
            /\ status' = 0
            /\ pc' = "done"
            /\ raised' = "import"
  /\ UNCHANGED <<argv, texts, model_name, dim, encoded, vectors, acc>>

\* lines 10-12, outside any try
ParseArgs ==
  /\ pc = "parse"
  /\ IF JsonLoads(argv.a1).raised
       THEN Uncaught("argument") /\ UNCHANGED <<texts, model_name, dim>>
       ELSE IF IntParse(argv.a3).raised
         THEN /\ Uncaught("argument")
              /\ texts' = JsonLoads(argv.a1).value
              /\ model_name' = argv.a2
              /\ UNCHANGED dim
         ELSE /\ texts' = JsonLoads(argv.a1).value
              /\ model_name' = argv.a2
              /\ dim' = IntParse(argv.a3).value
              /\ pc' = "load"
              /\ UNCHANGED <<stdout, status, raised>>
  /\ UNCHANGED <<argv, encoded, vectors, acc>>

\* lines 19-21: except Exception
ExceptHandlerReraise(kind) ==
  /\ Uncaught(kind)
  /\ UNCHANGED <<argv, texts, model_name, dim, encoded, vectors, acc>>

ExceptHandlerPartial(kind) ==
  /\ stdout' = Append(stdout,
        acc \o Repeat(Repeat(Zero, dim), Len(texts) - Len(acc)))
  /\ status' = 0
  /\ pc' = "done"
  /\ raised' = kind
  /\ UNCHANGED <<argv, texts, model_name, dim, encoded, vectors, acc>>

ExceptHandler(kind) ==
  /\ stdout' = Append(stdout, ZeroFallback(texts, dim))
  /\ status' = 0
  /\ pc' = "done"
  /\ raised' = kind
  /\ UNCHANGED <<argv, texts, model_name, dim, encoded, vectors, acc>>

\* line 14
LoadModel ==
  /\ pc = "load"
  /\ pc' = "encode"
  /\ UNCHANGED <<argv, texts, model_name, dim, encoded, vectors, acc,
                 stdout, status, raised>>

LoadRaises ==
  /\ pc = "load"
  /\ ExceptHandler("load")

\* line 15
Encode ==
  /\ pc = "encode"
  /\ \E r \in EncodeResults(Len(texts)) :
       /\ vectors' = r
       /\ encoded' = r
  /\ acc' = <<>>
  /\ pc' = "convert"
  /\ UNCHANGED <<argv, texts, model_name, dim, stdout, status, raised>>

EncodeRaises ==
  /\ pc = "encode"
  /\ ExceptHandler("encode")

\* line 17, one iteration of the comprehension: v[:dim], then float() of each
ConvertRaisesAt(v) ==
  \/ ~v.sliceable
  \/ \E j \in 1..Len(Truncate(v.comps, dim)) :
       FloatRaises(Truncate(v.comps, dim)[j])

ConvertStepPrepend ==
  /\ pc = "convert"
  /\ Len(acc) < Len(vectors)
  /\ ~ConvertRaisesAt(vectors[Len(acc) + 1])
  /\ acc' = <<MapFloat(Truncate(vectors[Len(acc) + 1].comps, dim))>> \o acc
  /\ UNCHANGED <<argv, pc, texts, model_name, dim, encoded, vectors,
                 stdout, status, raised>>

ConvertStep ==
  /\ pc = "convert"
  /\ Len(acc) < Len(vectors)
  /\ ~ConvertRaisesAt(vectors[Len(acc) + 1])
  /\ acc' = Append(acc, MapFloat(Truncate(vectors[Len(acc) + 1].comps, dim)))
  /\ UNCHANGED <<argv, pc, texts, model_name, dim, encoded, vectors,
                 stdout, status, raised>>

ConvertRaises ==
  /\ pc = "convert"
  /\ Len(acc) < Len(vectors)
  /\ ConvertRaisesAt(vectors[Len(acc) + 1])
  /\ ExceptHandler("convert")

\* end of line 17 and line 18; the script then runs off its end, status 0
PrintVectorsThenFallback ==
  /\ pc = "convert"
  /\ Len(acc) = Len(vectors)
  /\ vectors' = acc
  /\ stdout' = Append(Append(stdout, acc), ZeroFallback(texts, dim))
  /\ status' = 0
  /\ pc' = "done"
  /\ UNCHANGED <<argv, texts, model_name, dim, encoded, acc, raised>>

PrintVectors ==
  /\ pc = "convert"
  /\ Len(acc) = Len(vectors)
  /\ vectors' = acc
  /\ stdout' = Append(stdout, acc)
  /\ status' = 0
  /\ pc' = "done"
  /\ UNCHANGED <<argv, texts, model_name, dim, encoded, acc, raised>>

Next ==
  \/ ImportOk
  \/ ImportErrorFallback
  \/ ParseArgs
  \/ LoadModel
  \/ LoadRaises
  \/ Encode
  \/ EncodeRaises
  \/ ConvertStep
  \/ ConvertRaises
  \/ PrintVectors

Spec == Init /\ [][Next]_vars

\* ------------------------------------------------------------ properties
\* The arguments as the caller wrote them, read off argv without the
\* script's own parsers.
ValidArg1 == \E t \in TextLists : argv.a1 = RenderArray(t)

IntegerArg3 == \E n \in (0 - 1)..MaxDim : argv.a3 = IntToStr(n)

ValidArg3 == \E n \in 1..MaxDim : argv.a3 = IntToStr(n)

ValidArgs == ValidArg1 /\ ValidArg3

MalformedArgs == argv.a1 \in MalformedArg1 \/ argv.a3 \in MalformedArg3

InputTexts == CHOOSE t \in TextLists : argv.a1 = RenderArray(t)

Dimension == CHOOSE n \in (0 - 1)..MaxDim : argv.a3 = IntToStr(n)

Done == pc = "done"

FallbackPath == raised \in {"import", "load", "encode", "convert"}

SuccessPath == Done /\ raised = "none"

AllZeros(n, d) == [i \in 1..n |-> [j \in 1..d |-> Zero]]

\* what line 17 is to make of one row of the encode result
FirstComponents(row, d) ==
  [j \in 1..Min(d, Len(row.comps)) |->
     [kind |-> "float", val |-> row.comps[j].val]]

ModelGaveZeros ==
  \A i \in 1..Len(encoded) :
    /\ encoded[i].sliceable
    /\ \A j \in 1..Len(encoded[i].comps) :
         encoded[i].comps[j].kind = "float32" /\ encoded[i].comps[j].val = 0

\* C1: with valid arguments, every vector of every printed document has
\* exactly `dimension` components, on every path and whatever the model's
\* native vector length is.
C1_EveryVectorHasDimension ==
  ValidArgs =>
    \A d \in 1..Len(stdout) : \A i \in 1..Len(stdout[d]) :
      Len(stdout[d][i]) = Dimension

\* C2: with valid arguments, a finished run has printed an array with
\* exactly one vector per input text, on every path.
C2_OneVectorPerText ==
  (ValidArgs /\ Done) =>
    /\ Len(stdout) >= 1
    /\ \A d \in 1..Len(stdout) : Len(stdout[d]) = Len(InputTexts)

C2_Witness ==
  /\ ValidArgs /\ SuccessPath
  /\ Len(InputTexts) = 2 /\ Len(stdout) = 1 /\ Len(stdout[1]) = 2

C4_ImportFailureFallback ==
  (ValidArgs /\ raised = "import") =>
    /\ Done
    /\ status = 0
    /\ stdout = <<AllZeros(Len(InputTexts), Dimension)>>
    /\ model_name = "" /\ encoded = <<>> /\ vectors = <<>>

C4_Witness ==
  /\ ValidArgs /\ raised = "import" /\ Len(InputTexts) = 2 /\ Dimension = 3
  /\ stdout = <<AllZeros(2, 3)>> /\ status = 0

\* C5: with valid arguments, standard output is written exactly once, never
\* twice and never not at all, and the write ends the run with status 0.
C5_OutputWrittenOnce ==
  ValidArgs =>
    /\ Len(stdout) <= 1
    /\ Done => (Len(stdout) = 1 /\ status = 0)
    /\ ~Done => (Len(stdout) = 0 /\ status = 0 - 1)

C5_Witness ==
  /\ ValidArgs /\ SuccessPath /\ Len(stdout) = 1 /\ status = 0
  /\ Len(InputTexts) = 1

\* C6: malformed arguments are never turned into the zero fallback: the
\* parsing failure escapes, nothing is printed and the exit status is not 0,
\* whether or not the library can be imported.
C6_MalformedArgsEscape ==
  MalformedArgs =>
    /\ stdout = <<>>
    /\ pc \in {"import", "parse", "done"}
    /\ Done => (status # 0 /\ raised = "argument")

C6_Witness ==
  /\ argv.a3 \in MalformedArg3 /\ ValidArg1 /\ Done
  /\ model_name # "" /\ status = 1 /\ stdout = <<>>

\* C7: for the same valid arguments, a run that takes a fallback path and a
\* run that succeeds with a model yielding zero vectors print the same and
\* exit the same.  The fallback output is a function of the arguments, so
\* both kinds of run must print AllZeros(len(input_texts), dimension) and
\* exit with status 0.
C7_FailureLooksLikeZeros ==
  (ValidArgs /\ Done /\ (FallbackPath \/ (SuccessPath /\ ModelGaveZeros))) =>
    /\ status = 0
    /\ stdout = <<AllZeros(Len(InputTexts), Dimension)>>

\* C8: when argument 1 is [] and argument 3 is an integer, a finished run
\* has printed [] on every path and for every dimension.
C8_EmptyInputPrintsEmpty ==
  (argv.a1 = RenderArray(<<>>) /\ IntegerArg3 /\ Done) =>
    stdout = << <<>> >>

C8_Witness ==
  /\ argv.a1 = RenderArray(<<>>) /\ IntegerArg3 /\ Dimension = 3
  /\ Done /\ raised = "load" /\ stdout = << <<>> >>

\* C9: on the success path with valid arguments, output[i] is the first
\* `dimension` components of the vector the model produced for
\* input_texts[i], in order, as floats, for every i.
C9_SuccessIsTruncatedModelOutput ==
  (ValidArgs /\ SuccessPath) =>
    /\ Len(stdout) = 1
    /\ Len(stdout[1]) = Len(InputTexts)
    /\ Len(encoded) = Len(InputTexts)
    /\ \A i \in 1..Len(InputTexts) :
         stdout[1][i] = FirstComponents(encoded[i], Dimension)

C9_Witness ==
  /\ ValidArgs /\ SuccessPath /\ Len(InputTexts) = 2 /\ Dimension = 1
  /\ Len(encoded[1].comps) = 2
  /\ encoded[1].comps[1].val # encoded[2].comps[1].val
  /\ stdout[1] = <<FirstComponents(encoded[1], 1), FirstComponents(encoded[2], 1)>>

\* C10: with valid arguments, the printed output is either wholly derived
\* from the encode result or wholly zero vectors; when the conversion raises
\* on a later vector, none of the vectors converted before it is printed.
C10_AllOrNothing ==
  (ValidArgs /\ Len(stdout) >= 1) =>
    /\ \/ /\ Len(encoded) = Len(stdout[1])
          /\ \A i \in 1..Len(stdout[1]) :
               /\ encoded[i].sliceable
               /\ stdout[1][i] = FirstComponents(encoded[i], Dimension)
       \/ stdout[1] = AllZeros(Len(InputTexts), Dimension)
    /\ raised = "convert" => stdout[1] = AllZeros(Len(InputTexts), Dimension)

C10_Witness ==
  /\ ValidArgs /\ Done /\ raised = "convert" /\ Len(acc) = 1
  /\ acc[1] # Repeat(Zero, Dimension)
  /\ stdout = <<AllZeros(Len(InputTexts), Dimension)>>

====
